---- MODULE Spec2Model ----
(***************************************************************************)
(* DialAction (actions/HomeAssistantAction/dial_action.py): four dial      *)
(* settings, their write-through persistence, and the dispatch of dial     *)
(* events to backend.call_service.                                         *)
(*                                                                         *)
(* A Python str is a sequence of one-character strings; a dict is a        *)
(* function over its keys; an optional dict entry is <<>> (key absent) or  *)
(* <<v>> (key present with value v).                                       *)
(***************************************************************************)
EXTENDS Integers, Sequences, FiniteSets, TLC

\* ---------------------------------------------------------------- bounds
MaxLen == 2
MaxStep == 1

Chars == {"a", "."}
Strings == UNION {[1..n -> Chars] : n \in 0..MaxLen}
EntityIds == {<<>>, <<"e">>, <<"e", ".", "x">>}
StepValues == (-MaxStep)..MaxStep
\* Gtk.Adjustment.get_value() is a float: h stands for the value h/2
AdjustmentHalves == (-2 * MaxStep)..(2 * MaxStep)
Payloads == {"d0", "d1"}
Outcomes == {"ok", "ValueError", "Exception"}

\* ------------------------------------------------------------- constants
SETTING_DIAL_ENTITY_ID == "dial_entity_id"
SETTING_DIAL_STEP_SIZE == "dial_step_size"
SETTING_DIAL_TURN_SERVICE == "dial_turn_service"
SETTING_DIAL_PRESS_SERVICE == "dial_press_service"
DialKeys == {SETTING_DIAL_ENTITY_ID, SETTING_DIAL_STEP_SIZE,
             SETTING_DIAL_TURN_SERVICE, SETTING_DIAL_PRESS_SERVICE}

DOWN == "DOWN"
TURN_CW == "TURN_CW"
TURN_CCW == "TURN_CCW"
OtherEvents == {"UP"}
Events == {DOWN, TURN_CW, TURN_CCW} \cup OtherEvents

DefaultStepSize == 1

VARIABLES
    dial_entity_id,     \* self.dial_entity_id
    dial_step_size,     \* self.dial_step_size
    dial_turn_service,  \* self.dial_turn_service
    dial_press_service, \* self.dial_press_service
    settings,           \* the mapping behind get_settings()/set_settings()
    op,                 \* the method that ran last (an event_callback: its event)
    arg,                \* the argument that method was given
    calls,              \* backend.call_service attempts of the last method
    delegated,          \* super().event_callback calls of the last method
    raised,             \* exception the last method let out ("none" if none)
    log,                \* notices printed by the last method
    writes              \* mappings handed to set_settings by the last method

vars == <<dial_entity_id, dial_step_size, dial_turn_service, dial_press_service,
          settings, op, arg, calls, delegated, raised, log, writes>>

\* ------------------------------------------------------- pure functions
Opt(S) == {<<>>} \cup {<<v>> : v \in S}

\* dict.get(key, default)
SettingsGet(s, key, default) == IF s[key] = <<>> THEN default ELSE s[key][1]

\* truthiness of a str
Truthy(s) == Len(s) > 0

HasDot(s) == \E i \in 1..Len(s) : s[i] = "."
FirstDot(s) == CHOOSE i \in 1..Len(s) : s[i] = "." /\ \A j \in 1..(i - 1) : s[j] # "."

\* variant: a string without '.' is taken as a service name with an empty domain
Split1_defaultDomain(s) ==
    IF HasDot(s)
    THEN <<SubSeq(s, 1, FirstDot(s) - 1), SubSeq(s, FirstDot(s) + 1, Len(s))>>
    ELSE <<<<>>, s>>

\* str.split('.', 1)
Split1(s) ==
    IF HasDot(s)
    THEN <<SubSeq(s, 1, FirstDot(s) - 1), SubSeq(s, FirstDot(s) + 1, Len(s))>>
    ELSE <<s>>

\* int(x) of a float given in halves: truncation toward zero
IntOfHalves(h) == IF h >= 0 THEN h \div 2 ELSE -((-h) \div 2)

StoredSettings ==
    { [k \in DialKeys |->
          CASE k = SETTING_DIAL_ENTITY_ID -> e
            [] k = SETTING_DIAL_STEP_SIZE -> n
            [] k = SETTING_DIAL_TURN_SERVICE -> t
            [] k = SETTING_DIAL_PRESS_SERVICE -> p]
      : e \in Opt(EntityIds), n \in Opt(StepValues),
        t \in Opt(Strings), p \in Opt(Strings) }

\* --------------------------------------------------------------- state
Init ==
    /\ dial_entity_id = <<>>
    /\ dial_step_size = DefaultStepSize
    /\ dial_turn_service = <<>>
    /\ dial_press_service = <<>>
    /\ settings \in StoredSettings
    /\ op = "__init__"
    /\ arg = "none"
    /\ calls = <<>>
    /\ delegated = <<>>
    /\ raised = "none"
    /\ log = <<>>
    /\ writes = <<>>

\* variant: the press service is read from the turn-service key
_load_dial_settings_turnKeyTwice ==
    /\ op = "__init__"
    /\ dial_entity_id' = SettingsGet(settings, SETTING_DIAL_ENTITY_ID, <<>>)
    /\ dial_step_size' = SettingsGet(settings, SETTING_DIAL_STEP_SIZE, DefaultStepSize)
    /\ dial_turn_service' = SettingsGet(settings, SETTING_DIAL_TURN_SERVICE, <<>>)
    /\ dial_press_service' = SettingsGet(settings, SETTING_DIAL_TURN_SERVICE, <<>>)
    /\ op' = "_load_dial_settings"
    /\ arg' = "none"
    /\ calls' = <<>>
    /\ delegated' = <<>>
    /\ raised' = "none"
    /\ log' = <<>>
    /\ writes' = <<>>
    /\ UNCHANGED settings

_load_dial_settings ==
    /\ op = "__init__"
    /\ dial_entity_id' = SettingsGet(settings, SETTING_DIAL_ENTITY_ID, <<>>)
    /\ dial_step_size' = SettingsGet(settings, SETTING_DIAL_STEP_SIZE, DefaultStepSize)
    /\ dial_turn_service' = SettingsGet(settings, SETTING_DIAL_TURN_SERVICE, <<>>)
    /\ dial_press_service' = SettingsGet(settings, SETTING_DIAL_PRESS_SERVICE, <<>>)
    /\ op' = "_load_dial_settings"
    /\ arg' = "none"
    /\ calls' = <<>>
    /\ delegated' = <<>>
    /\ raised' = "none"
    /\ log' = <<>>
    /\ writes' = <<>>
    /\ UNCHANGED settings

\* variant: the press-service key is given the turn service
SavedSettings_turnAsPress(s, entity_id, step_size, turn_service, press_service) ==
    [s EXCEPT ![SETTING_DIAL_ENTITY_ID] = <<entity_id>>,
              ![SETTING_DIAL_STEP_SIZE] = <<step_size>>,
              ![SETTING_DIAL_TURN_SERVICE] = <<turn_service>>,
              ![SETTING_DIAL_PRESS_SERVICE] = <<turn_service>>]

\* settings = self.get_settings(); four item assignments; the mapping handed
\* to set_settings
SavedSettings(s, entity_id, step_size, turn_service, press_service) ==
    [s EXCEPT ![SETTING_DIAL_ENTITY_ID] = <<entity_id>>,
              ![SETTING_DIAL_STEP_SIZE] = <<step_size>>,
              ![SETTING_DIAL_TURN_SERVICE] = <<turn_service>>,
              ![SETTING_DIAL_PRESS_SERVICE] = <<press_service>>]

\* _save_dial_settings: runs after the caller's assignment, so it reads the
\* fields' new values
_save_dial_settings ==
    LET written == SavedSettings(settings, dial_entity_id', dial_step_size',
                                 dial_turn_service', dial_press_service')
    IN /\ settings' = written
       /\ writes' = <<written>>

Quiet ==
    /\ calls' = <<>>
    /\ delegated' = <<>>
    /\ raised' = "none"
    /\ log' = <<>>

_on_dial_entity_id_changed(text) ==
    /\ op # "__init__"
    /\ dial_entity_id' = text
    /\ UNCHANGED <<dial_step_size, dial_turn_service, dial_press_service>>
    /\ _save_dial_settings
    /\ op' = "_on_dial_entity_id_changed"
    /\ arg' = text
    /\ Quiet

_on_dial_step_size_changed(halves) ==
    /\ op # "__init__"
    /\ dial_step_size' = IntOfHalves(halves)
    /\ UNCHANGED <<dial_entity_id, dial_turn_service, dial_press_service>>
    /\ _save_dial_settings
    /\ op' = "_on_dial_step_size_changed"
    /\ arg' = halves
    /\ Quiet

_on_dial_turn_service_changed(text) ==
    /\ op # "__init__"
    /\ dial_turn_service' = text
    /\ UNCHANGED <<dial_entity_id, dial_step_size, dial_press_service>>
    /\ _save_dial_settings
    /\ op' = "_on_dial_turn_service_changed"
    /\ arg' = text
    /\ Quiet

_on_dial_press_service_changed(text) ==
    /\ op # "__init__"
    /\ dial_press_service' = text
    /\ UNCHANGED <<dial_entity_id, dial_step_size, dial_turn_service>>
    /\ _save_dial_settings
    /\ op' = "_on_dial_press_service_changed"
    /\ arg' = text
    /\ Quiet

\* ------------------------------------------------------- event_callback
\* what one run of event_callback does outside the object
Outcome(c, d, r, l) == [calls |-> c, delegated |-> d, raised |-> r, log |-> l]

\* variant: the entity check is missing
EntityConfigured_always(entity_id) == TRUE

\* if not self.dial_entity_id
EntityConfigured(entity_id) == Truthy(entity_id)

\* variant: the last part is taken without the two-value unpacking
CanUnpack_any(parts) == Len(parts) >= 1

\* _domain, service_name = parts: ValueError unless there are exactly two
\* values; service_name is bound to the last of them
CanUnpack(parts) == Len(parts) = 2
\* variant: the domain is taken for the service name
ServiceName_domain(parts) == parts[1]
ServiceName(parts) == parts[Len(parts)]

\* the exception classes the two except clauses of each try block handle;
\* ValueError is a subclass of Exception
CaughtAsValueError(exc) == exc = "ValueError"
CaughtAsException(exc) == exc \in {"ValueError", "Exception"}
\* variant: the except Exception clause is missing
Caught_onlyValueError(exc) == CaughtAsValueError(exc)
Caught(exc) == CaughtAsValueError(exc) \/ CaughtAsException(exc)
Propagated(exc) == IF exc = "none" \/ Caught(exc) THEN "none" ELSE exc

\* backend.call_service(entity, service, parameters): the attempt, and what
\* it raises
CallService(entity, service, parameters, outcome) ==
    [entity |-> entity, service |-> service, parameters |-> parameters,
     outcome |-> outcome]
RaisedBy(outcome) == IF outcome = "ok" THEN "none" ELSE outcome

PressServiceData(entity_id) == [entity_id |-> entity_id]
TurnServiceData(entity_id, step) == [entity_id |-> entity_id, brightness_step_pct |-> step]

CWStep(step_size) == step_size
\* variant: the counter-clockwise step is not negated
CCWStep_unsigned(step_size) == step_size
CCWStep(step_size) == -step_size

\* the print of the try block's normal exit or of the except clause taken
TryNotice(exc, ok, invalid, failed) ==
    IF exc = "none" THEN <<ok>>
    ELSE IF CaughtAsValueError(exc) THEN <<invalid>>
    ELSE IF CaughtAsException(exc) THEN <<failed>>
    ELSE <<>>

\* event == Input.Dial.Events.DOWN
PressBranch(entity_id, press_service, outcome) ==
    IF Truthy(press_service)
    THEN LET parts == Split1(press_service)
             exc == IF CanUnpack(parts) THEN RaisedBy(outcome) ELSE "ValueError"
         IN Outcome(IF CanUnpack(parts)
                    THEN <<CallService(entity_id, ServiceName(parts),
                                       PressServiceData(entity_id), outcome)>>
                    ELSE <<>>,
                    <<>>,
                    Propagated(exc),
                    <<"press_calling">> \o
                        TryNotice(exc, "press_ok", "press_invalid_format", "press_error"))
    ELSE Outcome(<<>>, <<>>, "none", <<"press_no_service">>)

\* event == Input.Dial.Events.TURN_CW
TurnCWBranch(entity_id, turn_service, step_size, outcome) ==
    IF Truthy(turn_service)
    THEN LET parts == Split1(turn_service)
             exc == IF CanUnpack(parts) THEN RaisedBy(outcome) ELSE "ValueError"
         IN Outcome(IF CanUnpack(parts)
                    THEN <<CallService(entity_id, ServiceName(parts),
                                       TurnServiceData(entity_id, CWStep(step_size)),
                                       outcome)>>
                    ELSE <<>>,
                    <<>>,
                    Propagated(exc),
                    (IF CanUnpack(parts) THEN <<"cw_calling">> ELSE <<>>) \o
                        TryNotice(exc, "cw_ok", "turn_invalid_format", "cw_error"))
    ELSE Outcome(<<>>, <<>>, "none", <<"cw_no_service">>)

\* event == Input.Dial.Events.TURN_CCW
TurnCCWBranch(entity_id, turn_service, step_size, outcome) ==
    IF Truthy(turn_service)
    THEN LET parts == Split1(turn_service)
             exc == IF CanUnpack(parts) THEN RaisedBy(outcome) ELSE "ValueError"
         IN Outcome(IF CanUnpack(parts)
                    THEN <<CallService(entity_id, ServiceName(parts),
                                       TurnServiceData(entity_id, CCWStep(step_size)),
                                       outcome)>>
                    ELSE <<>>,
                    <<>>,
                    Propagated(exc),
                    (IF CanUnpack(parts) THEN <<"ccw_calling">> ELSE <<>>) \o
                        TryNotice(exc, "ccw_ok", "turn_invalid_format", "ccw_error"))
    ELSE Outcome(<<>>, <<>>, "none", <<"ccw_no_service">>)

\* variant: the base class is handed an empty payload
SuperEventCallback_noPayload(event, data) == <<[event |-> event, data |-> "none"]>>

\* super().event_callback(event, data)
SuperEventCallback(event, data) == <<[event |-> event, data |-> data]>>

Dispatch(event, data, entity_id, step_size, turn_service, press_service, outcome) ==
    IF ~EntityConfigured(entity_id)
    THEN Outcome(<<>>, <<>>, "none", <<"no_entity_id">>)
    ELSE IF event = DOWN
    THEN PressBranch(entity_id, press_service, outcome)
    ELSE IF event = TURN_CW
    THEN TurnCWBranch(entity_id, turn_service, step_size, outcome)
    ELSE IF event = TURN_CCW
    THEN TurnCCWBranch(entity_id, turn_service, step_size, outcome)
    ELSE Outcome(<<>>, SuperEventCallback(event, data), "none", <<>>)

\* variant: the callback saves the settings before it returns
event_callback_saving(event, data, outcome) ==
    /\ op # "__init__"
    /\ LET did == Dispatch(event, data, dial_entity_id, dial_step_size,
                           dial_turn_service, dial_press_service, outcome)
       IN /\ calls' = did.calls
          /\ delegated' = did.delegated
          /\ raised' = did.raised
          /\ log' = did.log
    /\ op' = event
    /\ arg' = data
    /\ UNCHANGED <<dial_entity_id, dial_step_size, dial_turn_service, dial_press_service>>
    /\ _save_dial_settings

event_callback(event, data, outcome) ==
    /\ op # "__init__"
    /\ LET did == Dispatch(event, data, dial_entity_id, dial_step_size,
                           dial_turn_service, dial_press_service, outcome)
       IN /\ calls' = did.calls
          /\ delegated' = did.delegated
          /\ raised' = did.raised
          /\ log' = did.log
    /\ op' = event
    /\ arg' = data
    /\ writes' = <<>>
    /\ UNCHANGED <<dial_entity_id, dial_step_size, dial_turn_service,
                   dial_press_service, settings>>

Next ==
    \/ _load_dial_settings
    \/ \E text \in EntityIds : _on_dial_entity_id_changed(text)
    \/ \E halves \in AdjustmentHalves : _on_dial_step_size_changed(halves)
    \/ \E text \in Strings : _on_dial_turn_service_changed(text)
    \/ \E text \in Strings : _on_dial_press_service_changed(text)
    \/ \E event \in Events, data \in Payloads, outcome \in Outcomes :
           event_callback(event, data, outcome)

Spec == Init /\ [][Next]_vars

\* ----------------------------------------------------------- properties
Handled == {DOWN, TURN_CW, TURN_CCW}
ChangeOps == {"_on_dial_entity_id_changed", "_on_dial_step_size_changed",
              "_on_dial_turn_service_changed", "_on_dial_press_service_changed"}

\* the part of s after its first '.', stated without Split1
AfterFirstDot(s, t) ==
    \E i \in 1..Len(s) :
        /\ s[i] = "."
        /\ \A j \in 1..(i - 1) : s[j] # "."
        /\ Len(t) = Len(s) - i
        /\ \A k \in 1..Len(t) : t[k] = s[i + k]

\* an empty part before or after the first '.'
EmptyPart(s) == HasDot(s) /\ (s[1] = "." \/ AfterFirstDot(s, <<>>))

\* the service field that belongs to the event kind
ServiceOf(event) == IF event = DOWN THEN dial_press_service ELSE dial_turn_service

\* C1: whatever the event kind and the other three fields, an event delivered
\* while entity_id is the empty string makes no call to backend.call_service.
C1_NoEntityNoCall ==
    (op \in Events /\ dial_entity_id = <<>>) => calls = <<>>

C1_Witness ==
    /\ op = DOWN
    /\ dial_entity_id = <<>>
    /\ dial_press_service = <<".", "a">>
    /\ calls = <<>>

\* C2: a PRESS with a non-empty entity_id E and a press_service containing a
\* '.' makes exactly one call attempt, with (E, S, {"entity_id": E}) where S is
\* the part of press_service after its first '.', whether or not it fails.
C2_PressCall ==
    (op = DOWN /\ dial_entity_id # <<>> /\ HasDot(dial_press_service)) =>
        /\ Len(calls) = 1
        /\ calls[1].entity = dial_entity_id
        /\ AfterFirstDot(dial_press_service, calls[1].service)
        /\ calls[1].parameters = [entity_id |-> dial_entity_id]

C2_Witness ==
    /\ op = DOWN
    /\ dial_press_service = <<".", "a">>
    /\ Len(calls) = 1
    /\ calls[1].service = <<"a">>
    /\ calls[1].outcome = "Exception"

\* C3: a turn event with a non-empty entity_id E, a turn_service containing a
\* '.' and any integer step_size N makes exactly one call attempt, with
\* (E, S, {"entity_id": E, "brightness_step_pct": P}), S the part of
\* turn_service after its first '.', P = N clockwise and P = -N
\* counter-clockwise.
C3_TurnCall ==
    (op \in {TURN_CW, TURN_CCW} /\ dial_entity_id # <<>> /\ HasDot(dial_turn_service)) =>
        /\ Len(calls) = 1
        /\ calls[1].entity = dial_entity_id
        /\ AfterFirstDot(dial_turn_service, calls[1].service)
        /\ calls[1].parameters =
               [entity_id |-> dial_entity_id,
                brightness_step_pct |->
                    IF op = TURN_CW THEN dial_step_size ELSE 0 - dial_step_size]

C3_Witness ==
    /\ op = TURN_CCW
    /\ dial_step_size = -1
    /\ Len(calls) = 1
    /\ calls[1].parameters.brightness_step_pct = 1

\* C4: an event makes no call when the service field of its own kind is empty
\* or has no '.', whatever the other service field holds.
C4_OwnServiceGuards ==
    (op \in Handled /\ ~HasDot(ServiceOf(op))) => calls = <<>>

C4_Witness ==
    /\ op = DOWN
    /\ dial_entity_id # <<>>
    /\ dial_press_service = <<"a">>
    /\ dial_turn_service = <<"a", ".">>
    /\ calls = <<>>

\* C5: a PRESS, TURN_CW or TURN_CCW event returns normally in every
\* configuration and for every outcome of backend.call_service.
C5_NeverRaises ==
    op \in Handled => raised = "none"

C5_Witness ==
    /\ op \in Handled
    /\ Len(calls) = 1
    /\ calls[1].outcome = "Exception"
    /\ raised = "none"

\* the changed field holds the handler's argument (the step size converted
\* by int()), the other three are as before
EntityChange ==
    /\ dial_entity_id' = arg'
    /\ UNCHANGED <<dial_step_size, dial_turn_service, dial_press_service>>
StepChange ==
    /\ 2 * dial_step_size' <= arg' + 1
    /\ 2 * dial_step_size' >= arg' - 1
    /\ (arg' < 0 => 2 * dial_step_size' >= arg')
    /\ (arg' > 0 => 2 * dial_step_size' <= arg')
    /\ UNCHANGED <<dial_entity_id, dial_turn_service, dial_press_service>>
TurnChange ==
    /\ dial_turn_service' = arg'
    /\ UNCHANGED <<dial_entity_id, dial_step_size, dial_press_service>>
PressChange ==
    /\ dial_press_service' = arg'
    /\ UNCHANGED <<dial_entity_id, dial_step_size, dial_turn_service>>

PersistedIsInMemory(s) ==
    /\ s[SETTING_DIAL_ENTITY_ID] = <<dial_entity_id>>
    /\ s[SETTING_DIAL_STEP_SIZE] = <<dial_step_size>>
    /\ s[SETTING_DIAL_TURN_SERVICE] = <<dial_turn_service>>
    /\ s[SETTING_DIAL_PRESS_SERVICE] = <<dial_press_service>>

EverSaved == \A k \in DialKeys : settings[k] # <<>>

\* C6: each of the four field-change reactions makes exactly one set_settings
\* write; in it the changed field holds the new value and the other three
\* fields their earlier values; once a reaction has run, the four persisted
\* dial keys equal the four in-memory fields.
C6_WriteThrough ==
    /\ [][op' \in ChangeOps =>
            /\ Len(writes') = 1
            /\ settings' = writes'[1]
            /\ PersistedIsInMemory(settings)'
            /\ op' = "_on_dial_entity_id_changed" => EntityChange
            /\ op' = "_on_dial_step_size_changed" => StepChange
            /\ op' = "_on_dial_turn_service_changed" => TurnChange
            /\ op' = "_on_dial_press_service_changed" => PressChange]_vars
    /\ []((op # "__init__" /\ EverSaved) => PersistedIsInMemory(settings))

C6_Witness ==
    /\ op = "_on_dial_step_size_changed"
    /\ arg = -1
    /\ dial_step_size = 0
    /\ dial_press_service = <<"a", ".">>
    /\ Len(writes) = 1
    /\ settings[SETTING_DIAL_STEP_SIZE] = <<0>>
    /\ settings[SETTING_DIAL_PRESS_SERVICE] = <<<<"a", ".">>>>

\* C7 as stated: an event of any other kind is delegated exactly once to the
\* base class, with the same event and payload, in every configuration, and
\* no service call is made.
C7_AlwaysDelegates ==
    op \in OtherEvents =>
        /\ delegated = <<[event |-> op, data |-> arg]>>
        /\ calls = <<>>

\* C7 amended: with a non-empty entity_id an event of any other kind is
\* delegated exactly once to the base class, with the same event and payload;
\* with an empty entity_id it is not delegated at all; in neither case does
\* DialAction make a service call.
C7_DelegatesWhenConfigured ==
    op \in OtherEvents =>
        /\ delegated = IF dial_entity_id # <<>>
                       THEN <<[event |-> op, data |-> arg]>>
                       ELSE <<>>
        /\ calls = <<>>

C7_Witness ==
    /\ op \in OtherEvents
    /\ dial_entity_id # <<>>
    /\ arg = "d1"
    /\ Len(delegated) = 1

\* C8: construction loads the four fields from the settings store: a stored
\* key gives its field the stored value, a missing key the default ("", 1, "",
\* ""), and loading writes nothing to the store.
C8_LoadDefaults ==
    op = "_load_dial_settings" =>
        /\ dial_entity_id = IF settings[SETTING_DIAL_ENTITY_ID] = <<>>
                            THEN <<>> ELSE settings[SETTING_DIAL_ENTITY_ID][1]
        /\ dial_step_size = IF settings[SETTING_DIAL_STEP_SIZE] = <<>>
                            THEN 1 ELSE settings[SETTING_DIAL_STEP_SIZE][1]
        /\ dial_turn_service = IF settings[SETTING_DIAL_TURN_SERVICE] = <<>>
                               THEN <<>> ELSE settings[SETTING_DIAL_TURN_SERVICE][1]
        /\ dial_press_service = IF settings[SETTING_DIAL_PRESS_SERVICE] = <<>>
                                THEN <<>> ELSE settings[SETTING_DIAL_PRESS_SERVICE][1]
        /\ writes = <<>>

C8_Witness ==
    /\ op = "_load_dial_settings"
    /\ settings[SETTING_DIAL_ENTITY_ID] = <<>>
    /\ settings[SETTING_DIAL_STEP_SIZE] = <<0>>
    /\ settings[SETTING_DIAL_TURN_SERVICE] = <<<<"a", ".">>>>
    /\ dial_entity_id = <<>>
    /\ dial_step_size = 0
    /\ dial_turn_service = <<"a", ".">>
    /\ dial_press_service = <<>>

\* C9 as stated: a service string of the event's kind that has no '.', or an
\* empty part before or after its first '.', is skipped: no call is made and
\* nothing is raised.
C9_MalformedSkipped ==
    (op \in Handled /\ (~HasDot(ServiceOf(op)) \/ EmptyPart(ServiceOf(op)))) =>
        /\ calls = <<>>
        /\ raised = "none"

\* C9 amended: a service string of the event's kind that has no '.' is
\* skipped: no call is made and nothing is raised.  A string with a '.' is not
\* skipped even when the part before or after the first '.' is empty: with a
\* non-empty entity_id one call attempt is made, and nothing is raised.
C9_OnlyDotlessSkipped ==
    op \in Handled =>
        /\ raised = "none"
        /\ ~HasDot(ServiceOf(op)) => calls = <<>>
        /\ (EmptyPart(ServiceOf(op)) /\ dial_entity_id # <<>>) => Len(calls) = 1

C9_Witness ==
    /\ op = TURN_CW
    /\ dial_entity_id # <<>>
    /\ dial_turn_service = <<"a", "a">>
    /\ calls = <<>>
    /\ log = <<"turn_invalid_format">>

\* C10: a PRESS, TURN_CW or TURN_CCW event leaves the four fields and the
\* persisted settings as they were and never calls set_settings, on every
\* branch; so whether it makes a call is decided by the fields as they are
\* when it is delivered.
C10_EventsChangeNothing ==
    /\ [][op' \in Handled =>
            /\ UNCHANGED <<dial_entity_id, dial_step_size, dial_turn_service,
                           dial_press_service, settings>>
            /\ writes' = <<>>]_vars
    /\ [](op \in Handled =>
            (Len(calls) = 1 <=> (dial_entity_id # <<>> /\ HasDot(ServiceOf(op)))))

C10_Witness ==
    /\ op = TURN_CCW
    /\ Len(calls) = 1
    /\ calls[1].outcome = "ValueError"
    /\ settings[SETTING_DIAL_PRESS_SERVICE] = <<>>
    /\ writes = <<>>
====
